---------------------------- MODULE Spec2Model ----------------------------
(***************************************************************************)
(* A model of the query orchestration pipeline of the Githaf chatbot       *)
(* backend: get_rag_response and its retry loop (rag_service.py), the      *)
(* response validator and retry_with_adjustment (validation_service.py),   *)
(* the learning job and its threshold store (learning_service.py) and the  *)
(* scheduler (scheduler.py).                                               *)
(*                                                                         *)
(* Numbers that are floats in the source (similarity thresholds,           *)
(* confidences) are integers in hundredths here: 0.7 is 70, 0.15 is 15.    *)
(* Texts are sequences of lines, a line is a sequence of tokens, and the   *)
(* string operations of the source (strip, startswith, lower, "x in s",    *)
(* split) are computed on the tokens.                                      *)
(***************************************************************************)
EXTENDS Integers, Sequences, FiniteSets, TLC

VARIABLES
    settings,   \* config.settings: RAG_SIMILARITY_THRESHOLD (thr), RAG_TOP_K (top_k)
    configured, \* the values of settings when the process started
    stack,      \* per request: the get_rag_response activations, outermost first
    outcome,    \* per request: what the outermost get_rag_response returned
    request,    \* per request: the arguments of the outermost call
    reruns,     \* per request: pipeline runs started by retry_with_adjustment
    validations,\* per request: verdicts delivered by validate_response
    observed,   \* per request: what the outermost loop saw (verdicts, retries)
    CURRENT_THRESHOLDS, \* learning_service: the threshold store
    committed,  \* whether apply_threshold_adjustments has committed yet
    jobpc,      \* per execution of weekly_learning_job: idle or at its await
    scheduler,  \* scheduler.py: running flag and the ids of the jobs it holds
    text,       \* parse_validation_response: the assessment text handed to it
    parsed,     \* parse_validation_response: what it returned (NotParsed before)
    query_lower,\* re-ranking: the factual keywords occurring in the query
    docs,       \* re-ranking: relevant_docs as similarity_search returned them
    ranked,     \* re-ranking: relevant_docs after step 8 (NotRanked before)
    raw_query,  \* preprocess_query: the query string first handed to it
    processed,  \* preprocess_query: what successive applications returned
    retry_text, \* retry_with_adjustment: the adjustment text handed to it
    retry_original, \* retry_with_adjustment: the threshold handed to it
    retry_adjusted,   \* retry_with_adjustment: what it wrote into the settings
    requested,   \* apply_threshold_adjustments: the adjustments handed to it
    job_analysis \* the analysis analyze_feedback_batch returns to the job

pipelineVars ==
    <<settings, configured, stack, outcome, request, reruns, validations,
      observed>>
learningVars == <<CURRENT_THRESHOLDS, committed, jobpc, scheduler>>
parseVars == <<text, parsed>>
rankVars == <<query_lower, docs, ranked>>
queryVars == <<raw_query, processed>>
retryVars == <<retry_text, retry_original, retry_adjusted>>
applyVars == <<requested>>
jobVars == <<job_analysis>>

vars ==
    <<pipelineVars, learningVars, parseVars, rankVars, queryVars, retryVars,
      applyVars, jobVars>>

---------------------------------------------------------------------------
(* Strings of the validator protocol, as tokens.                           *)

WS == " "

FieldTags ==
    {"ANSWERS_QUESTION:", "IS_GROUNDED:", "HAS_HALLUCINATION:",
     "CONFIDENCE:", "RETRY:", "ADJUSTMENT:"}

\* str.lower() on the tokens of the model's vocabulary.
Lower(t) ==
    CASE t = "YES" -> "yes"
      [] t = "Yes" -> "yes"
      [] t = "NO" -> "no"
      [] t = "Lower Threshold" -> "lower threshold"
      [] t = "More Documents" -> "more documents"
      [] t = "REPHRASE" -> "rephrase"
      [] t = "CONFIDENCE:" -> "confidence:"
      [] t = "RETRY:" -> "retry:"
      [] t = "Githaf" -> "githaf"
      [] t = "Consulting" -> "consulting"
      [] t = "Emial" -> "emial"
      [] t = "Where" -> "where"
      [] t = "OK" -> "ok"
      [] OTHER -> t

\* str.strip() on a line: leading and trailing whitespace tokens removed.
RECURSIVE LStrip(_)
LStrip(line) ==
    IF line # <<>> /\ Head(line) = WS THEN LStrip(Tail(line)) ELSE line

RECURSIVE RStrip(_)
RStrip(line) ==
    IF line # <<>> /\ line[Len(line)] = WS
    THEN RStrip(SubSeq(line, 1, Len(line) - 1))
    ELSE line

Strip(line) == RStrip(LStrip(line))

\* line.startswith(tag); the comparison is case-sensitive.
StartsWithAnyCase(line, tag) == line # <<>> /\ Lower(Head(line)) = Lower(tag)

StartsWith(line, tag) == line # <<>> /\ Head(line) = tag

\* "yes" in line.lower()
HasYes(line) == \E i \in 1..Len(line) : Lower(line[i]) = "yes"

\* re.search(r"[\d.]+", token) followed by float(): the first run of digits and
\* dots of a token as hundredths (kind "num"); kind "bad" where float() raises
\* ValueError; kind "none" for a token without a digit or a dot. The sign of
\* "-0.5" is not part of the match.
Num(v) == [kind |-> "num", val |-> v]
NoNum(k) == [kind |-> k, val |-> 0]

NumberOf(t) ==
    CASE t = "0.4" -> Num(40)
      [] t = "0.69" -> Num(69)
      [] t = "0.7" -> Num(70)
      [] t = "0.9" -> Num(90)
      [] t = "85" -> Num(8500)
      [] t = "-0.5" -> Num(50)
      [] t = "." -> NoNum("bad")
      [] OTHER -> NoNum("none")

RECURSIVE FirstNumber(_)
FirstNumber(line) ==
    IF line = <<>> THEN NoNum("none")
    ELSE IF NumberOf(Head(line)).kind # "none" THEN NumberOf(Head(line))
    ELSE FirstNumber(Tail(line))

ConfidenceFloor == 70

DefaultVerdict ==
    [is_valid |-> TRUE, confidence |-> 100, issues |-> <<>>,
     retry_recommended |-> FALSE, suggested_adjustment |-> <<>>]

DemoteUnnamed(result, issue) == [result EXCEPT !.is_valid = FALSE]

Demote(result, issue) ==
    [result EXCEPT !.is_valid = FALSE, !.issues = Append(@, issue)]

\* The CONFIDENCE branch: the number is stored when float() succeeds, and the
\* verdict demoted when it is below 0.7; a ValueError is swallowed.
ParseConfidence(result, line) ==
    LET n == FirstNumber(line) IN
    IF n.kind # "num" THEN result
    ELSE IF n.val < ConfidenceFloor
         THEN Demote([result EXCEPT !.confidence = n.val], "low confidence")
         ELSE [result EXCEPT !.confidence = n.val]

\* One iteration of the loop over the lines: the if/elif chain on the tag.
ParseLine(result, raw) ==
    LET line == Strip(raw) IN
    IF StartsWith(line, "ANSWERS_QUESTION:")
    THEN IF ~HasYes(line) THEN Demote(result, "doesn't answer question")
         ELSE result
    ELSE IF StartsWith(line, "IS_GROUNDED:")
    THEN IF ~HasYes(line) THEN Demote(result, "not grounded in sources")
         ELSE result
    ELSE IF StartsWith(line, "HAS_HALLUCINATION:")
    THEN IF HasYes(line) THEN Demote(result, "hallucination detected")
         ELSE result
    ELSE IF StartsWith(line, "CONFIDENCE:")
    THEN ParseConfidence(result, line)
    ELSE IF StartsWith(line, "RETRY:")
    THEN [result EXCEPT !.retry_recommended = HasYes(line)]
    ELSE IF StartsWith(line, "ADJUSTMENT:")
    THEN [result EXCEPT !.suggested_adjustment = Strip(Tail(line))]
    ELSE result

RECURSIVE ParseLines(_, _)
ParseLines(result, lines) ==
    IF lines = <<>> THEN result
    ELSE ParseLines(ParseLine(result, Head(lines)), Tail(lines))

parse_validation_response(t) == ParseLines(DefaultVerdict, t)

\* validate_response when the assessment call raises.
FallbackVerdict ==
    [is_valid |-> TRUE, confidence |-> 50, issues |-> <<"validation_error">>,
     retry_recommended |-> FALSE, suggested_adjustment |-> <<>>]

---------------------------------------------------------------------------
(* The assessment texts the generation backend may answer a validation     *)
(* prompt with, and ones it may answer to parse_validation_response alone. *)

MaxLines == 2

AssessmentLines ==
    {<<tag, v>> : tag \in {"ANSWERS_QUESTION:", "IS_GROUNDED:",
                           "HAS_HALLUCINATION:", "RETRY:"},
                 v \in {"yes", "NO", "maybe"}}
    \cup {<<"CONFIDENCE:", v>> : v \in {"0.4", "0.69", "0.7", "0.9", "85",
                                        "-0.5", ".", "high"}}
    \cup {<<"ADJUSTMENT:">>, <<"ADJUSTMENT:", "lower threshold">>,
          <<"ADJUSTMENT:", WS, "More Documents", WS>>}
    \cup {<<WS, "RETRY:", "Yes">>, <<WS, "CONFIDENCE:", "0.4", WS>>}
    \cup {<<>>, <<WS>>, <<"This is not the expected format at all!">>,
          <<"confidence:", "0.4">>, <<"Note:", "RETRY:", "yes">>,
          <<"yes">>}

RECURSIVE TextsUpTo(_)
TextsUpTo(n) ==
    IF n = 0 THEN {<<>>}
    ELSE LET shorter == TextsUpTo(n - 1) IN
         shorter \cup {Append(t, l) : t \in shorter, l \in AssessmentLines}

NotParsed == [is_valid |-> FALSE, confidence |-> 0, issues |-> <<"not parsed">>,
              retry_recommended |-> FALSE, suggested_adjustment |-> <<>>]

\* What the validator backend answers inside the pipeline.
ValidatorTexts ==
    { << <<"ANSWERS_QUESTION:", "yes">>, <<"CONFIDENCE:", "0.9">>,
         <<"RETRY:", "NO">> >>,
      << <<"CONFIDENCE:", "0.9">>, <<"RETRY:", "yes">>,
         <<"ADJUSTMENT:", "lower threshold">> >>,
      << <<"IS_GROUNDED:", "NO">>, <<"RETRY:", "NO">> >>,
      << <<"IS_GROUNDED:", "NO">>, <<"HAS_HALLUCINATION:", "yes">>,
         <<"CONFIDENCE:", "0.4">>, <<"RETRY:", "yes">>,
         <<"ADJUSTMENT:", "lower threshold", "to find better sources">> >>,
      << <<"ANSWERS_QUESTION:", "NO">>, <<"RETRY:", "yes">>,
         <<"ADJUSTMENT:", "retrieve", "More Documents">> >>,
      << <<"ANSWERS_QUESTION:", "NO">>, <<"RETRY:", "yes">>,
         <<"ADJUSTMENT:", "check the sources">> >> }

---------------------------------------------------------------------------
(* learning_service.py: the threshold store and the learning job.          *)
(* Every value of the store is in hundredths, top_k too (5 is 500).        *)

Min(a, b) == IF a < b THEN a ELSE b
Max(a, b) == IF a > b THEN a ELSE b

Arrow == "->"     \* the arrow character of "<current> -> <suggested>"

DeclaredParams ==
    {"similarity_threshold", "top_k", "validation_confidence", "temperature"}

Params == DeclaredParams \cup {"max_tokens"}

Present(v) == [present |-> TRUE, val |-> v]
Absent == [present |-> FALSE, val |-> 0]

DefaultThresholds ==
    [p \in Params |->
        CASE p = "similarity_threshold" -> Present(50)
          [] p = "top_k" -> Present(500)
          [] p = "validation_confidence" -> Present(70)
          [] p = "temperature" -> Present(70)
          [] OTHER -> Absent]

\* float(s) on a stripped string: one numeric token, else ValueError ("bad").
Float(tokens) ==
    IF Len(tokens) # 1 THEN NoNum("bad")
    ELSE CASE tokens[1] = "0.4" -> Num(40)
           [] tokens[1] = "-1" -> Num(-100)
           [] tokens[1] = "15" -> Num(1500)
           [] tokens[1] = "4.7" -> Num(470)
           [] OTHER -> NoNum("bad")

\* "sep in s" and s.split(sep)
Contains(tokens, sep) == \E i \in 1..Len(tokens) : tokens[i] = sep

RECURSIVE UpTo(_, _)
UpTo(tokens, sep) ==
    IF tokens = <<>> \/ Head(tokens) = sep THEN <<>>
    ELSE <<Head(tokens)>> \o UpTo(Tail(tokens), sep)

RECURSIVE After(_, _)
After(tokens, sep) ==
    IF tokens = <<>> THEN <<>>
    ELSE IF Head(tokens) = sep THEN Tail(tokens)
    ELSE After(Tail(tokens), sep)

\* adjustment_text.split(arrow)[1].split("(")[0].strip()
SuggestedStr(adjustment_text) ==
    Strip(UpTo(UpTo(After(adjustment_text, Arrow), Arrow), "("))

\* int() of a value in hundredths.
IntPart(v) == (v \div 100) * 100

\* The safety bounds; a parameter that is none of the four is not clamped.
SafetyBoundsNoFloor(param, v) ==
    CASE param = "similarity_threshold" -> Min(80, v)
      [] param = "top_k" -> IntPart(Min(1000, v))
      [] param = "temperature" -> Min(100, v)
      [] param = "validation_confidence" -> Min(90, v)
      [] OTHER -> v

SafetyBounds(param, v) ==
    CASE param = "similarity_threshold" -> Max(30, Min(80, v))
      [] param = "top_k" -> IntPart(Max(300, Min(1000, v)))
      [] param = "temperature" -> Max(30, Min(100, v))
      [] param = "validation_confidence" -> Max(50, Min(90, v))
      [] OTHER -> v

ApplyOneZeroed(updated, param, adjustment_text) ==
    IF ~Contains(adjustment_text, Arrow) THEN updated
    ELSE LET suggested == Float(SuggestedStr(adjustment_text)) IN
         [updated EXCEPT
             ![param] = Present(SafetyBounds(param, suggested.val))]

\* The body of the loop over adjustments.items(). updated[param] is assigned
\* before the log line reads CURRENT_THRESHOLDS[param], whose KeyError for an
\* undeclared parameter is caught by the outer except.
ApplyOne(updated, param, adjustment_text) ==
    IF ~Contains(adjustment_text, Arrow) THEN updated
    ELSE LET suggested == Float(SuggestedStr(adjustment_text)) IN
         IF suggested.kind # "num" THEN updated
         ELSE [updated EXCEPT
                  ![param] = Present(SafetyBounds(param, suggested.val))]

RECURSIVE ApplyAll(_, _, _)
ApplyAll(updated, adjustments, todo) ==
    IF todo = {} THEN updated
    ELSE LET param == CHOOSE p \in todo : TRUE IN
         ApplyAll(ApplyOne(updated, param, adjustments[param]), adjustments,
                  todo \ {param})

\* apply_threshold_adjustments: the store after CURRENT_THRESHOLDS.update.
apply_threshold_adjustments(store, adjustments) ==
    ApplyAll(store, adjustments, DOMAIN adjustments)

AdjustmentTexts ==
    {<<"0.5", Arrow, WS, "0.4", WS, "(", "lower threshold", ")">>,
     <<"5", Arrow, "-1">>,
     <<"5", Arrow, "15", "(", "more context", ")">>,
     <<"5", Arrow, "4.7">>,
     <<"0.5", Arrow, "N/A">>,
     <<"keep", "0.5">>}

\* In a call with two adjustments: a parseable text, a text without the arrow.
PairTexts ==
    {<<"0.5", Arrow, WS, "0.4", WS, "(", "lower threshold", ")">>,
     <<"keep", "0.5">>}

\* The adjustments of one call: a dict over one or two parameters.
AdjustmentDicts(params) ==
    UNION {[d -> AdjustmentTexts] :
              d \in {x \in SUBSET params : Cardinality(x) = 1}}
    \cup UNION {[d -> PairTexts] :
                   d \in {x \in SUBSET params : Cardinality(x) = 2}}

\* What retrieval would read from the store once it has been committed to.
Tuned ==
    IF committed
    THEN [thr |-> CURRENT_THRESHOLDS["similarity_threshold"].val,
          top_k |-> CURRENT_THRESHOLDS["top_k"].val \div 100]
    ELSE [thr |-> 0, top_k |-> 0]

---------------------------------------------------------------------------
(* get_rag_response and retry_with_adjustment.                             *)

Requests == {"r1", "r2"}

\* Bounds on the nesting of get_rag_response activations of one request.
MaxDepth == 3
ConcDepth == 2
LoopDepth == 2

DefaultMaxRetries == 2

\* The counters reruns and validations stop counting here, above every budget.
CountCap == DefaultMaxRetries + 2
RetryTopK == 5
WideTopK == 10

\* A query is a sequence of words and of runs of whitespace (WS); two words
\* next to each other are one space apart. preprocess_query, step 1: a word
\* "Githaf" (any case) that is not followed, after whitespace, by "Consulting"
\* (any case) becomes "Githaf Consulting".
RECURSIVE NextWord(_)
NextWord(q) ==
    IF q = <<>> THEN WS
    ELSE IF Head(q) = WS THEN NextWord(Tail(q))
    ELSE Head(q)

RECURSIVE CanonicalAlways(_)
CanonicalAlways(q) ==
    IF q = <<>> THEN <<>>
    ELSE IF Lower(Head(q)) = "githaf"
    THEN <<"Githaf", "Consulting">> \o CanonicalAlways(Tail(q))
    ELSE <<Head(q)>> \o CanonicalAlways(Tail(q))

RECURSIVE Canonical(_)
Canonical(q) ==
    IF q = <<>> THEN <<>>
    ELSE IF /\ Lower(Head(q)) = "githaf"
            /\ Lower(NextWord(Tail(q))) # "consulting"
    THEN <<"Githaf", "Consulting">> \o Canonical(Tail(q))
    ELSE <<Head(q)>> \o Canonical(Tail(q))

\* preprocess_query, step 2: the misspelling map, matched on whole words
\* without regard to case.
Corrected(w) ==
    CASE Lower(w) \in {"emial", "emal", "e-mail"} -> "email"
      [] Lower(w) \in {"contct", "contac", "contat"} -> "contact"
      [] Lower(w) \in {"locaton", "loction", "locaion"} -> "location"
      [] Lower(w) \in {"addres", "adress"} -> "address"
      [] Lower(w) \in {"phne", "phn"} -> "phone"
      [] Lower(w) \in {"servce", "servic", "servces"} -> "services"
      [] Lower(w) \in {"consultin", "consultng", "consutling"} -> "consulting"
      [] Lower(w) \in {"bussiness", "busines", "buisness"} -> "business"
      [] Lower(w) \in {"queston", "questin", "qustion"} -> "question"
      [] Lower(w) \in {"informaton", "informtion", "infomation"}
            -> "information"
      [] Lower(w) \in {"avaliable", "availble", "avalable"} -> "available"
      [] Lower(w) \in {"recieve", "recive"} -> "receive"
      [] Lower(w) \in {"responce", "reponse"} -> "response"
      [] OTHER -> w

\* "if not query or not query.strip(): return query", then the two steps.
preprocess_query(q) ==
    IF Strip(q) = <<>> THEN q
    ELSE LET c == Canonical(q) IN [i \in 1..Len(c) |-> Corrected(c[i])]

\* The keywords and phrases the pipeline looks for with "keyword in
\* query_lower", and those that occur inside a word of the vocabulary
\* ("ai" occurs in "email").
Keywords ==
    {"email", "phone", "contact", "address", "number", "reach", "call",
     "location", "where", "office",
     "pricing", "price", "cost", "payment", "fee",
     "services", "service", "hours", "schedule", "availability",
     "how are you", "how r u", "your name", "who are you", "what are you",
     "bot", "robot", "ai"}

OccursIn(w) ==
    CASE w = "email" -> {"email", "ai"}
      [] w = "services" -> {"services", "service"}
      [] w = "availability" -> {"availability", "ai"}
      [] w = "robot" -> {"robot", "bot"}
      [] w = "explain" -> {"ai"}
      [] OTHER -> {w} \cap Keywords

\* query_lower, as the set of the keywords that occur in it.
KeywordsIn(q) == UNION {OccursIn(Lower(q[i])) : i \in 1..Len(q)}

factual_keywords ==
    {"email", "phone", "contact", "address", "number", "reach", "call",
     "location", "where", "office"}

is_factual_query(q) == q \cap factual_keywords # {}

\* The similarity threshold of an attempt (rag_service.py, step 6).
Threshold(q, s) ==
    IF q \cap {"email", "location", "where", "address"} # {} THEN 20
    ELSE IF is_factual_query(q) THEN 25
    ELSE s.thr

\* The top_k asked of similarity_search (step 7).
SearchTopK(q, s) == IF is_factual_query(q) THEN s.top_k * 2 ELSE s.top_k

KeptDocsUntruncated(q, n, s) == n

\* The documents kept after re-ranking (step 8): truncation applies to a
\* factual query with a non-empty result, and reads settings.RAG_TOP_K then.
KeptDocs(q, n, s) == IF is_factual_query(q) /\ n > 0 THEN Min(n, s.top_k) ELSE n

\* ---- Re-ranking of a factual query's documents (rag_service.py, step 8) ----

\* Similarities are integers in hundred-thousandths: One is the code's 1.0.
One == 100000

MaxDocs == 2

\* What the boosts look for in a document's lowercased content: an "@", a
\* "+" or a digit, one of the location words.
ContentMarks == {"@", "digit", "place"}

Similarities == {0, 30000, 60000, 70000, One}

NotRanked == <<[id |-> 0, content |-> {}, similarity |-> -1]>>

needs_email(q) == "email" \in q
needs_phone(q) == q \cap {"phone", "call", "number"} # {}
needs_location(q) == q \cap {"location", "where", "address", "office"} # {}

BoostUncapped(similarity, pct) == (similarity * pct) \div 100

\* min(1.0, doc["similarity"] * factor), the factor in hundredths.
Boost(similarity, pct) == Min(One, (similarity * pct) \div 100)

\* The similarity of a document after the three boosts, in the code's order.
Boosted(q, doc) ==
    LET s1 == IF needs_email(q) /\ "@" \in doc.content
              THEN Boost(doc.similarity, 150) ELSE doc.similarity
        s2 == IF needs_phone(q) /\ "digit" \in doc.content
              THEN Boost(s1, 130) ELSE s1
        s3 == IF needs_location(q) /\ "place" \in doc.content
              THEN Boost(s2, 160) ELSE s2
    IN  s3

\* sorted(..., key=similarity, reverse=True): descending and stable, so a
\* document goes after every document already placed that is not below it.
InsertDesc(sorted, doc) ==
    LET before == {j \in 1..Len(sorted) :
                      sorted[j].similarity >= doc.similarity}
        k == Cardinality(before)
    IN  SubSeq(sorted, 1, k) \o <<doc>> \o SubSeq(sorted, k + 1, Len(sorted))

RECURSIVE SortDesc(_)
SortDesc(ds) ==
    IF ds = <<>> THEN <<>>
    ELSE InsertDesc(SortDesc(SubSeq(ds, 1, Len(ds) - 1)), ds[Len(ds)])

\* Step 8 as a whole: boost, re-sort, keep the first settings.RAG_TOP_K.
ReRank(q, ds, s) ==
    IF is_factual_query(q) /\ ds # <<>>
    THEN LET boosted == [i \in 1..Len(ds) |->
                            [ds[i] EXCEPT !.similarity = Boosted(q, ds[i])]]
             sorted == SortDesc(boosted)
         IN  SubSeq(sorted, 1, Min(Len(sorted), s.top_k))
    ELSE ds

\* "phrase in adjustment.lower()"
Mentions(adjustment, phrase) ==
    \E i \in 1..Len(adjustment) : Lower(adjustment[i]) = phrase

AdjustedParamsNoFloor(adjustment, original_threshold) ==
    IF Mentions(adjustment, "lower threshold")
       \/ Mentions(adjustment, "expand search")
    THEN [thr |-> original_threshold - 10, top_k |-> RetryTopK]
    ELSE IF Mentions(adjustment, "more documents")
            \/ Mentions(adjustment, "increase top_k")
    THEN [thr |-> original_threshold, top_k |-> WideTopK]
    ELSE IF Mentions(adjustment, "rephrase")
    THEN [thr |-> original_threshold - 5, top_k |-> RetryTopK]
    ELSE [thr |-> original_threshold, top_k |-> RetryTopK]

\* retry_with_adjustment: the parameters it writes into the settings.
AdjustedParams(adjustment, original_threshold) ==
    IF Mentions(adjustment, "lower threshold")
       \/ Mentions(adjustment, "expand search")
    THEN [thr |-> Max(15, original_threshold - 10), top_k |-> RetryTopK]
    ELSE IF Mentions(adjustment, "more documents")
            \/ Mentions(adjustment, "increase top_k")
    THEN [thr |-> original_threshold, top_k |-> WideTopK]
    ELSE IF Mentions(adjustment, "rephrase")
    THEN [thr |-> Max(20, original_threshold - 5), top_k |-> RetryTopK]
    ELSE [thr |-> original_threshold, top_k |-> RetryTopK]

\* The condition of the retry loop (rag_service.py, step 15).
ShouldRetryNoBudget(validation, retry_count, max_retries) ==
    /\ ~validation.is_valid
    /\ validation.retry_recommended

ShouldRetry(validation, retry_count, max_retries) ==
    /\ ~validation.is_valid
    /\ validation.retry_recommended
    /\ retry_count < max_retries

\* Response texts: none yet, the fixed fallback, a template, or the text the
\* generation backend (or the executed plan) produced for the activation at a
\* path of the call tree.
\* A template is known by the set it is drawn from (random.choice) and, for
\* the sets that are dictionaries, the key.
NoResponse == [kind |-> "none", key |-> "", path |-> <<>>]
FALLBACK_RESPONSE == [kind |-> "fallback", key |-> "", path |-> <<>>]
Template(set, key) == [kind |-> set, key |-> key, path |-> <<>>]
Generated(path) == [kind |-> "generated", key |-> "", path |-> path]
Planned(path) == [kind |-> "planned", key |-> "", path |-> path]
ChatGenerated == [kind |-> "generated", key |-> "chat", path |-> <<>>]

NoMetadata ==
    [present |-> FALSE, confidence |-> 0, retry_count |-> 0, issues |-> <<>>,
     is_valid |-> FALSE]

NoResult ==
    [returned |-> FALSE, response |-> NoResponse, sources |-> 0,
     context_found |-> FALSE, intent |-> "none", conversational |-> FALSE,
     planned |-> FALSE, error |-> FALSE, validation |-> NoMetadata]

ErrorResultWithContext ==
    [NoResult EXCEPT !.returned = TRUE, !.response = FALLBACK_RESPONSE,
                     !.context_found = TRUE, !.error = TRUE]

NoContextResultAsError ==
    [NoResult EXCEPT !.returned = TRUE, !.response = FALLBACK_RESPONSE,
                     !.intent = "question", !.error = TRUE]

\* The except branch of get_rag_response.
ErrorResult ==
    [NoResult EXCEPT !.returned = TRUE, !.response = FALLBACK_RESPONSE,
                     !.error = TRUE]

\* Step 9: no relevant documents.
NoContextResult ==
    [NoResult EXCEPT !.returned = TRUE, !.response = FALLBACK_RESPONSE,
                     !.intent = "question"]

\* classify_intent_hybrid and should_use_rag: the intents of the model.
Intents ==
    {"greeting", "farewell", "gratitude", "help", "out_of_scope", "unclear",
     "chit_chat", "question"}

should_use_rag(intent) == intent = "question"

\* get_conversational_response, UNCLEAR: the loops over the keyword groups run
\* one after the other, each assigning clarification_key on a match.
KeyAfter(key, kw, group, name) == IF kw \cap group # {} THEN name ELSE key

clarification_key(kw) ==
    KeyAfter(
      KeyAfter(
        KeyAfter(
          KeyAfter(
            KeyAfter("default", kw, {"email"}, "email"),
            kw, {"pricing", "price", "cost", "payment", "fee"}, "pricing"),
          kw, {"contact", "phone", "address", "location"}, "contact"),
        kw, {"services", "service"}, "services"),
      kw, {"hours", "schedule", "availability"}, "hours")

\* What the backends of the context-aware branch do: the history fetch
\* raises, finds nothing or finds some; formatting and generation work or
\* raise.
ChatBackends ==
    [history : {"raises", "empty", "some"}, format : {"ok", "raises"},
     llm : {"ok", "raises"}]

Affirmations == {"yes", "okay", "ok", "sure", "yep", "yeah", "yup"}

\* query_lower in ["yes", "okay", ...]: the whole query is the token.
IsAffirmation(q) == Len(q) = 1 /\ Lower(q[1]) \in Affirmations

Answered(response) == [raised |-> FALSE, response |-> response]
Raised == [raised |-> TRUE, response |-> NoResponse]

\* get_conversational_response, CHIT_CHAT. Only the generation call is inside
\* a try.
ChitChat(q, session_id, b) ==
    LET kw == KeywordsIn(q) IN
    IF kw \cap {"how are you", "how r u"} # {}
    THEN Answered(Template("CHIT_CHAT_RESPONSES", "how_are_you"))
    ELSE IF kw \cap {"your name", "who are you", "what are you"} # {}
    THEN Answered(Template("CHIT_CHAT_RESPONSES", "name"))
    ELSE IF kw \cap {"bot", "robot", "ai"} # {}
    THEN Answered(Template("CHIT_CHAT_RESPONSES", "bot"))
    ELSE IF session_id /\ IsAffirmation(q)
    THEN IF b.history = "raises" THEN Raised
         ELSE IF b.history = "empty"
         THEN Answered(Template("CHIT_CHAT_RESPONSES", "default"))
         ELSE IF b.format = "raises" THEN Raised
         ELSE IF b.llm = "raises"
         THEN Answered(Template("CHIT_CHAT_RESPONSES", "default"))
         ELSE Answered(ChatGenerated)
    ELSE Answered(Template("CHIT_CHAT_RESPONSES", "default"))

\* get_conversational_response: the response text, or the exception that
\* leaves the function.
ConversationalResponse(intent, q, session_id, b) ==
    CASE intent = "greeting" -> Answered(Template("GREETING_RESPONSES", ""))
      [] intent = "farewell" -> Answered(Template("FAREWELL_RESPONSES", ""))
      [] intent = "gratitude" -> Answered(Template("GRATITUDE_RESPONSES", ""))
      [] intent = "help" -> Answered(Template("HELP_RESPONSE", ""))
      [] intent = "out_of_scope" ->
            Answered(Template("OUT_OF_SCOPE_RESPONSE", ""))
      [] intent = "unclear" ->
            Answered(Template("CLARIFICATION_RESPONSES",
                              clarification_key(KeywordsIn(q))))
      [] intent = "chit_chat" -> ChitChat(q, session_id, b)
      [] OTHER -> Answered(Template("UNCLEAR_QUERY_RESPONSE", ""))

ConversationalResultUnflagged(intent, response) ==
    [NoResult EXCEPT !.returned = TRUE, !.response = response,
                     !.intent = intent]

\* The result get_conversational_response returns.
ConversationalResult(intent, response) ==
    [NoResult EXCEPT !.returned = TRUE, !.response = response,
                     !.intent = intent, !.conversational = TRUE]

\* Step 16: the result with the validation metadata.
FinalResultWithoutIssues(f, v) ==
    [NoResult EXCEPT !.returned = TRUE, !.response = f.response,
                     !.sources = f.sources, !.context_found = TRUE,
                     !.intent = "question",
                     !.validation =
                         [present |-> TRUE, confidence |-> v.confidence,
                          retry_count |-> f.retry_count, issues |-> <<>>,
                          is_valid |-> v.is_valid]]

FinalResult(f, v) ==
    [NoResult EXCEPT !.returned = TRUE, !.response = f.response,
                     !.sources = f.sources, !.context_found = TRUE,
                     !.intent = "question",
                     !.validation =
                         [present |-> TRUE, confidence |-> v.confidence,
                          retry_count |-> f.retry_count, issues |-> v.issues,
                          is_valid |-> v.is_valid]]

validate_responseFailClosed(assessment, raised) ==
    IF raised
    THEN [FallbackVerdict EXCEPT !.is_valid = FALSE, !.retry_recommended = TRUE]
    ELSE parse_validation_response(assessment)

\* validate_response: the parsed assessment, or the fallback verdict when the
\* assessment call raises.
validate_response(assessment, raised) ==
    IF raised THEN FallbackVerdict ELSE parse_validation_response(assessment)

Verdicts ==
    {validate_response(t, FALSE) : t \in ValidatorTexts}
    \cup {validate_response(<<>>, TRUE)}

\* Step 3: the result of a planned query, validated once and never retried.
PlannedResultUnflagged(f, v, success) ==
    [NoResult EXCEPT !.returned = TRUE, !.response = Planned(f.path),
                     !.context_found = success, !.intent = "question",
                     !.validation =
                         [present |-> TRUE, confidence |-> v.confidence,
                          retry_count |-> 0, issues |-> v.issues,
                          is_valid |-> v.is_valid]]

PlannedResult(f, v, success) ==
    [NoResult EXCEPT !.returned = TRUE, !.response = Planned(f.path),
                     !.context_found = success, !.intent = "question",
                     !.planned = TRUE,
                     !.validation =
                         [present |-> TRUE, confidence |-> v.confidence,
                          retry_count |-> 0, issues |-> v.issues,
                          is_valid |-> v.is_valid]]

NoSettings == [thr |-> 0, top_k |-> 0]

\* A fresh activation of get_rag_response, suspended at its first await. raw
\* is the query as passed, query the keywords of the processed query.
NewFrame(raw, session_id, max_retries, path, s) ==
    [pc |-> "classify", raw |-> raw, session |-> session_id,
     query |-> KeywordsIn(preprocess_query(raw)), max_retries |-> max_retries,
     path |-> path, retry_count |-> 0, threshold |-> 0,
     response |-> NoResponse, sources |-> 0, saved |-> NoSettings,
     entry |-> s, search |-> NoSettings, trunc |-> 0, tuned |-> NoSettings]

Top(r) == stack[r][Len(stack[r])]

SetTop(r, f) ==
    [stack EXCEPT ![r] = [@ EXCEPT ![Len(@)] = f]]

\* What the outermost loop of a request has seen so far.
NoChat == [history |-> "none", format |-> "none", llm |-> "none"]

\* Besides the verdicts: the intent classified, what the backends of the
\* conversational branch did, the stage that raised, the number of
\* documents similarity_search returned (-1 before it has), and the query
\* texts shown to the language model and to the validator by any activation
\* of the request.
NothingObserved ==
    [verdicts |-> <<>>, last |-> NotParsed, on |-> NoResponse, retries |-> 0,
     returns |-> <<>>, intent |-> "none", chat |-> NoChat, raised |-> "none",
     found |-> -1, shown |-> {}, on_sources |-> 0]

Show(obs, r, to, query) ==
    [obs EXCEPT ![r].shown = @ \cup {[to |-> to, query |-> query]}]

\* The query of RAG_SYSTEM_PROMPT.format(..., query=query) and of
\* validate_response(query=query, ...): the query as the caller passed it.
PromptQueryProcessed(f) == preprocess_query(f.raw)

PromptQuery(f) == f.raw

ShortCircuitsBySession(intent, f, s) ==
    ~should_use_rag(intent) \/ (f.session /\ f.query = {})

\* "if not should_use_rag(intent)": whether the activation f, running under
\* the settings s, answers through get_conversational_response.
ShortCircuits(intent, f, s) == ~should_use_rag(intent)

\* Whether get_conversational_response reaches its generate_response call.
CallsChatModel(intent, q, session_id, b) ==
    /\ intent = "chit_chat"
    /\ KeywordsIn(q) \cap {"how are you", "how r u", "your name",
                           "who are you", "what are you", "bot", "robot",
                           "ai"} = {}
    /\ session_id
    /\ IsAffirmation(q)
    /\ b.history = "some"
    /\ b.format = "ok"

NoRequest ==
    [issued |-> FALSE, query |-> <<>>, session |-> FALSE, max_retries |-> 0]

\* An observation of the outermost activation of r.
Outermost(r, obs) == IF Len(stack[r]) = 1 THEN obs ELSE observed

\* retry_response.get("response", response_text): every result get_rag_response
\* returns has the key, so the default is never used.
RetryResponseKept(res, current) == current

RetryResponse(res, current) == res.response

\* The finally of retry_with_adjustment: both settings are assigned the values
\* saved before the override.
RestoredThresholdOnly(caller) ==
    [thr |-> caller.saved.thr, top_k |-> settings.top_k]

Restored(caller) == caller.saved

\* The activation on top of the stack of r returns res, and its caller runs on
\* to its next await: the outermost caller has its answer; retry_with_adjustment
\* restores the settings (finally), the loop takes over response and sources
\* and calls validate_response.
Return(r, res, obs) ==
    LET n == Len(stack[r]) IN
    IF n = 1
    THEN /\ stack' = [stack EXCEPT ![r] = <<>>]
         /\ outcome' = [outcome EXCEPT ![r] = res]
         /\ observed' = obs
         /\ UNCHANGED settings
    ELSE LET caller == stack[r][n - 1]
             resumed == [caller EXCEPT
                            !.pc = "validate",
                            !.response = RetryResponse(res, caller.response),
                            !.sources = res.sources,
                            !.saved = NoSettings]
         IN /\ stack' = [stack EXCEPT
                            ![r] = Append(SubSeq(@, 1, n - 2), resumed)]
            /\ settings' = Restored(caller)
            /\ observed' =
                   Show(IF n = 2
                        THEN [obs EXCEPT
                                 ![r].returns = Append(@, res.response)]
                        ELSE obs,
                        r, "validator", PromptQuery(caller))
            /\ UNCHANGED outcome

\* A caller invokes get_rag_response(query, session_id, max_retries=n).
Answer(r, queries, sessions, budgets) ==
    /\ ~request[r].issued
    /\ \E q \in queries, sid \in sessions, n \in budgets :
          /\ request' = [request EXCEPT
                            ![r] = [issued |-> TRUE, query |-> q,
                                    session |-> sid, max_retries |-> n]]
          /\ stack' = [stack EXCEPT
                          ![r] = <<NewFrame(q, sid, n, <<>>, settings)>>]
    /\ UNCHANGED <<settings, configured, outcome, reruns, validations, observed,
                   learningVars, parseVars, rankVars, queryVars, retryVars, applyVars, jobVars>>

\* Steps 0-7: the query is preprocessed, the intent classified and the query
\* embedded; a conversational intent returns what get_conversational_response
\* returns; a query that needs planning is planned, executed, validated once
\* and returned; otherwise threshold and top_k are read from the settings and
\* similarity_search is called. An exception of any of these returns the
\* error result.
Route(r, intents, fallbacks) ==
    /\ stack[r] # <<>>
    /\ Top(r).pc = "classify"
    /\ LET f == Top(r)
           processed_query == preprocess_query(f.raw)
       IN
       \/ \E stage \in {"classify", "planning", "embedding"} :
             /\ Return(r, ErrorResult,
                       Outermost(r, [observed EXCEPT ![r].raised = stage]))
             /\ UNCHANGED validations
       \/ \E intent \in intents, fallback \in fallbacks :
             LET classified ==
                     IF fallback
                     THEN Show(observed, r, "classifier", processed_query)
                     ELSE observed
             IN
             IF ShortCircuits(intent, f, settings)
             THEN \E b \in ChatBackends :
                  LET c == ConversationalResponse(
                               intent, processed_query, f.session, b)
                      chatted ==
                          IF CallsChatModel(intent, processed_query,
                                            f.session, b)
                          THEN Show(classified, r, "chat", processed_query)
                          ELSE classified
                  IN /\ Return(r,
                               IF c.raised THEN ErrorResult
                               ELSE ConversationalResult(intent, c.response),
                               IF Len(stack[r]) = 1
                               THEN [chatted EXCEPT
                                        ![r].intent = intent,
                                        ![r].chat = b,
                                        ![r].raised = IF c.raised
                                                      THEN "conversation"
                                                      ELSE "none"]
                               ELSE chatted)
                     /\ UNCHANGED validations
             ELSE \/ \E v \in Verdicts, success \in BOOLEAN :
                       LET planned ==
                               Show(Show(classified, r, "planner",
                                         processed_query),
                                    r, "validator", PromptQuery(f))
                       IN
                       /\ Return(r, PlannedResult(f, v, success),
                                 IF Len(stack[r]) = 1
                                 THEN [planned EXCEPT
                                          ![r].intent = intent,
                                          ![r].last = v,
                                          ![r].on = Planned(f.path),
                                          ![r].on_sources = 0]
                                 ELSE planned)
                       /\ validations' =
                              [validations EXCEPT ![r] = Min(@ + 1, CountCap)]
                  \/ /\ stack' = SetTop(r, [f EXCEPT
                            !.pc = "search",
                            !.threshold = Threshold(f.query, settings),
                            !.search = [thr |-> Threshold(f.query, settings),
                                        top_k |-> SearchTopK(f.query, settings)],
                            !.tuned = Tuned])
                     /\ LET embedded == Show(classified, r, "embedder",
                                              processed_query)
                        IN observed' =
                               IF Len(stack[r]) = 1
                               THEN [embedded EXCEPT ![r].intent = intent]
                               ELSE embedded
                     /\ UNCHANGED <<settings, outcome, validations>>
    /\ UNCHANGED <<configured, request, reruns, learningVars, parseVars, rankVars, queryVars, retryVars, applyVars, jobVars>>

\* Steps 8-12: similarity_search answers with n documents; they are re-ranked
\* and truncated; with none left the fallback is returned, otherwise the
\* generation backend is called.
Search(r) ==
    /\ stack[r] # <<>>
    /\ Top(r).pc = "search"
    /\ \/ Return(r, ErrorResult,
                 Outermost(r, [observed EXCEPT ![r].raised = "search"]))
       \/ \E n \in {0, Top(r).search.top_k} :
             LET f == Top(r)
                 kept == KeptDocs(f.query, n, settings)
                 seen == Outermost(r, [observed EXCEPT ![r].found = n])
             IN IF kept = 0
                THEN Return(r, NoContextResult, seen)
                ELSE /\ stack' = SetTop(r, [f EXCEPT
                            !.pc = "generate",
                            !.sources = kept,
                            !.trunc = IF is_factual_query(f.query)
                                      THEN settings.top_k ELSE 0])
                     /\ observed' = seen
                     /\ UNCHANGED <<settings, outcome>>
    /\ UNCHANGED <<configured, request, reruns, validations, learningVars,
                   parseVars, rankVars, queryVars, retryVars, applyVars, jobVars>>

\* Steps 11-14: the history is fetched and the generation backend answers (or
\* one of them raises) and validate_response is called.
Generate(r) ==
    /\ stack[r] # <<>>
    /\ Top(r).pc = "generate"
    /\ \/ Return(r, ErrorResult,
                 Outermost(r, [observed EXCEPT ![r].raised = "generate"]))
       \/ LET f == Top(r) IN
          /\ stack' = SetTop(r, [f EXCEPT !.pc = "validate",
                                          !.response = Generated(f.path)])
          /\ observed' = Show(Show(observed, r, "generator", PromptQuery(f)),
                              r, "validator", PromptQuery(f))
          /\ UNCHANGED <<settings, outcome>>
    /\ UNCHANGED <<configured, request, reruns, validations, learningVars,
                   parseVars, rankVars, queryVars, retryVars, applyVars, jobVars>>

\* Steps 14-16: validate_response delivers its verdict and the loop condition
\* is evaluated: either retry_with_adjustment saves the settings, overrides
\* them and calls get_rag_response again (default max_retries), or the result
\* is returned.
Validate(r, cap) ==
    /\ stack[r] # <<>>
    /\ Top(r).pc = "validate"
    /\ \E v \in Verdicts :
          LET f == Top(r)
              n == Len(stack[r])
              seen == IF n = 1
                      THEN [observed EXCEPT
                              ![r].verdicts =
                                  Append(@, [is_valid |-> v.is_valid,
                                             retry_recommended |->
                                                 v.retry_recommended]),
                              ![r].last = v,
                              ![r].on = f.response,
                              ![r].on_sources = f.sources]
                      ELSE observed
          IN /\ validations' = [validations EXCEPT ![r] = Min(@ + 1, CountCap)]
             /\ IF ShouldRetry(v, f.retry_count, f.max_retries)
                THEN /\ n < cap
                     /\ stack' = [stack EXCEPT ![r] =
                            Append([@ EXCEPT ![n] =
                                       [f EXCEPT !.pc = "retrying",
                                                 !.retry_count = @ + 1,
                                                 !.saved = settings]],
                                   NewFrame(f.raw, FALSE, DefaultMaxRetries,
                                            Append(f.path, f.retry_count + 1),
                                            AdjustedParams(
                                                v.suggested_adjustment,
                                                f.threshold)))]
                     /\ settings' = AdjustedParams(v.suggested_adjustment,
                                                   f.threshold)
                     /\ reruns' = [reruns EXCEPT ![r] = Min(@ + 1, CountCap)]
                     /\ observed' =
                            IF n = 1
                            THEN [seen EXCEPT ![r].retries = @ + 1]
                            ELSE seen
                     /\ UNCHANGED outcome
                ELSE /\ Return(r, FinalResult(f, v), seen)
                     /\ UNCHANGED reruns
    /\ UNCHANGED <<configured, request, learningVars, parseVars, rankVars, queryVars, retryVars, applyVars, jobVars>>

---------------------------------------------------------------------------
(* weekly_learning_job, trigger_learning_job_manually and the scheduler.   *)

WEEKLY_JOB == "weekly_learning"

\* What analyze_feedback_batch may return: no feedback, an error, no
\* query-response pairs, or the parsed analysis of the backend's answer.
NoAdjustments == <<>>

Analyses(params) ==
    {[total_analyzed |-> 0, confidence |-> 100,
      threshold_adjustments |-> NoAdjustments],
     [total_analyzed |-> 0, confidence |-> 0,
      threshold_adjustments |-> NoAdjustments],
     [total_analyzed |-> 2, confidence |-> 30,
      threshold_adjustments |-> NoAdjustments]}
    \cup {[total_analyzed |-> 1, confidence |-> 60, threshold_adjustments |-> d] :
            d \in AdjustmentDicts(params) \cup {NoAdjustments}}
    \cup {[total_analyzed |-> 1, confidence |-> 59, threshold_adjustments |-> d] :
            d \in AdjustmentDicts({"similarity_threshold"})}

\* The analysis of a failed analyze_feedback_batch.
NoAnalysis ==
    [total_analyzed |-> 0, confidence |-> 0,
     threshold_adjustments |-> NoAdjustments]

\* weekly_learning_job: whether the adjustments of an analysis are applied.
AdjustmentsAppliedAnyConfidence(analysis) ==
    /\ analysis.total_analyzed # 0
    /\ DOMAIN analysis.threshold_adjustments # {}

AdjustmentsApplied(analysis) ==
    /\ analysis.total_analyzed # 0
    /\ analysis.confidence >= 60
    /\ DOMAIN analysis.threshold_adjustments # {}

\* scheduler.add_job(..., id=id, replace_existing=...)
AddJobAppending(jobs, id, replace_existing) == Append(jobs, id)

AddJob(jobs, id, replace_existing) ==
    IF replace_existing
    THEN Append(SelectSeq(jobs, LAMBDA j : j # id), id)
    ELSE Append(jobs, id)

start_scheduler ==
    /\ scheduler' =
          IF scheduler.running THEN scheduler
          ELSE [running |-> TRUE,
                jobs |-> AddJob(scheduler.jobs, WEEKLY_JOB, TRUE)]
    /\ UNCHANGED <<pipelineVars, CURRENT_THRESHOLDS, committed, jobpc,
                   parseVars, rankVars, queryVars, retryVars, applyVars, jobVars>>

stop_scheduler ==
    /\ scheduler' =
          IF ~scheduler.running THEN scheduler
          ELSE [scheduler EXCEPT !.running = FALSE]
    /\ UNCHANGED <<pipelineVars, CURRENT_THRESHOLDS, committed, jobpc,
                   parseVars, rankVars, queryVars, retryVars, applyVars, jobVars>>

\* The cron trigger fires: the scheduler starts weekly_learning_job, one
\* instance of a job at a time.
CronFire ==
    /\ scheduler.running
    /\ \E i \in 1..Len(scheduler.jobs) : scheduler.jobs[i] = WEEKLY_JOB
    /\ jobpc["cron"] = "idle"
    /\ jobpc' = [jobpc EXCEPT !["cron"] = "analyzing"]
    /\ UNCHANGED <<pipelineVars, CURRENT_THRESHOLDS, committed, scheduler,
                   parseVars, rankVars, queryVars, retryVars, applyVars, jobVars>>

\* trigger_learning_job_manually: awaits weekly_learning_job at once.
trigger_learning_job_manually(j) ==
    /\ j # "cron"
    /\ jobpc[j] = "idle"
    /\ jobpc' = [jobpc EXCEPT ![j] = "analyzing"]
    /\ UNCHANGED <<pipelineVars, CURRENT_THRESHOLDS, committed, scheduler,
                   parseVars, rankVars, queryVars, retryVars, applyVars, jobVars>>

\* weekly_learning_job resumes from analyze_feedback_batch and runs to its
\* return: apply_threshold_adjustments has no await of its own.
AllAnalyses == Analyses(Params)
RetrievalAnalyses == Analyses({"similarity_threshold", "top_k"})

LearningJobResume(j, analyses) ==
    /\ jobpc[j] = "analyzing"
    /\ jobpc' = [jobpc EXCEPT ![j] = "idle"]
    /\ \E analysis \in analyses :
          IF AdjustmentsApplied(analysis)
          THEN /\ CURRENT_THRESHOLDS' =
                      apply_threshold_adjustments(
                          CURRENT_THRESHOLDS, analysis.threshold_adjustments)
               /\ committed' = TRUE
          ELSE UNCHANGED <<CURRENT_THRESHOLDS, committed>>
    /\ UNCHANGED <<pipelineVars, scheduler, parseVars, rankVars, queryVars, retryVars, applyVars, jobVars>>

---------------------------------------------------------------------------
(* Initial states and specifications.                                      *)

\* The executions of weekly_learning_job that may be in flight: the one the
\* scheduler starts and those of trigger_learning_job_manually.
JobRuns == {"cron", "manual1", "manual2"}

ConfiguredSettings ==
    {[thr |-> 50, top_k |-> 5], [thr |-> 30, top_k |-> 3]}

Queries == {<<>>, <<"office">>, <<"What", "is", "your", "emial">>}

Sessions == {FALSE}

\* The intents classified in the specifications about retries.
RetryIntents == {"question", "greeting"}

Budgets == {0, 1, 2}

InitPipeline ==
    /\ settings \in ConfiguredSettings
    /\ configured = settings
    /\ stack = [r \in Requests |-> <<>>]
    /\ outcome = [r \in Requests |-> NoResult]
    /\ request = [r \in Requests |-> NoRequest]
    /\ reruns = [r \in Requests |-> 0]
    /\ validations = [r \in Requests |-> 0]
    /\ observed = [r \in Requests |-> NothingObserved]

InitLearning ==
    /\ CURRENT_THRESHOLDS = DefaultThresholds
    /\ committed = FALSE
    /\ jobpc = [j \in JobRuns |-> "idle"]
    /\ scheduler = [running |-> FALSE, jobs |-> <<>>]

InitRankIdle ==
    /\ query_lower = {}
    /\ docs = <<>>
    /\ ranked = NotRanked

InitQueryIdle ==
    /\ raw_query = <<>>
    /\ processed = <<>>
    /\ retry_text = <<>>
    /\ retry_original = 0
    /\ retry_adjusted = NoSettings
    /\ requested = NoAdjustments
    /\ job_analysis = NoAnalysis

Init ==
    /\ InitPipeline
    /\ InitLearning
    /\ text = <<>>
    /\ parsed = NotParsed
    /\ InitRankIdle
    /\ InitQueryIdle

\* One request at a time.
Next ==
    \/ Answer("r1", Queries, Sessions, Budgets)
    \/ Route("r1", RetryIntents, {FALSE})
    \/ Search("r1")
    \/ Generate("r1")
    \/ Validate("r1", MaxDepth)

Spec == Init /\ [][Next]_vars

\* One request and the pipeline runs of its own retries: a retry's run returns
\* to the loop without opening further runs beyond LoopDepth activations.
NextLoop ==
    \/ Answer("r1", Queries, Sessions, Budgets)
    \/ Route("r1", RetryIntents, {FALSE})
    \/ Search("r1")
    \/ Generate("r1")
    \/ Validate("r1", LoopDepth)

SpecLoop == Init /\ [][NextLoop]_vars

\* Two requests in flight, switching at the awaits.
ConcQueries == {<<>>, <<"email">>}
ConcBudgets == {1}

NextConc ==
    \E r \in Requests :
        \/ Answer(r, ConcQueries, Sessions, ConcBudgets)
        \/ Route(r, RetryIntents, {FALSE})
        \/ Search(r)
        \/ Generate(r)
        \/ Validate(r, ConcDepth)

SpecConc == Init /\ [][NextConc]_vars

\* One request whose retries run retries of their own, up to NestDepth
\* activations.
NestDepth == 3
NestQueries == {<<"office">>}
NestBudgets == {1}

NextNest ==
    \/ Answer("r1", NestQueries, Sessions, NestBudgets)
    \/ Route("r1", {"question"}, {FALSE})
    \/ Search("r1")
    \/ Generate("r1")
    \/ Validate("r1", NestDepth)

SpecNest == Init /\ [][NextNest]_vars

\* One request of any intent, with or without a session, without retries.
ConvQueries ==
    {<<>>, <<"yes">>, <<"OK">>, <<"yes", "please">>, <<"how are you">>,
     <<"robot">>, <<"email">>, <<"email", "price">>, <<"price", "phone">>,
     <<"addres", "services">>, <<"services", "hours">>,
     <<"email", "schedule">>, <<"hours">>, <<"explain">>, <<"Githaf">>}

NextConv ==
    \/ Answer("r1", ConvQueries, BOOLEAN, {0})
    \/ Route("r1", Intents, {FALSE})
    \/ Search("r1")
    \/ Generate("r1")
    \/ Validate("r1", LoopDepth)

InitConv == Init /\ settings = [thr |-> 50, top_k |-> 5]

SpecConv == InitConv /\ [][NextConv]_vars

\* The query texts the language model and the validator are shown: every
\* intent, the classifier with and without its fallback to the model, one
\* retry.
\* classify_intent_hybrid: whether the pattern match was confident or the
\* classifier fell back to the language model, with the text it was given.
ClassifierFallbacks == BOOLEAN

PromptQueries ==
    {<<"yes">>, <<"OK">>, <<"Emial">>, <<"What", "is", "your", "emial">>,
     <<"Githaf">>, <<"hours">>}

NextPrompt ==
    \/ Answer("r1", PromptQueries, BOOLEAN, {0, 1})
    \/ Route("r1", Intents, ClassifierFallbacks)
    \/ Search("r1")
    \/ Generate("r1")
    \/ Validate("r1", LoopDepth)

SpecPrompt == InitConv /\ [][NextPrompt]_vars

\* Two requests, with and without a session: the first may retry once, and
\* the second may be classified under the settings that retry has overridden.
RouteQueries == {<<"yes">>}

RouteIntents == {"question", "chit_chat"}

NextRoute ==
    \/ Answer("r1", RouteQueries, BOOLEAN, {1})
    \/ Answer("r2", RouteQueries, BOOLEAN, {0})
    \/ \E r \in Requests :
          \/ Route(r, RouteIntents, {FALSE})
          \/ Search(r)
          \/ Generate(r)
          \/ Validate(r, ConcDepth)

SpecRoute == Init /\ [][NextRoute]_vars

\* The learning job, its triggers and the scheduler.
NextLearn ==
    \/ start_scheduler
    \/ stop_scheduler
    \/ CronFire
    \/ \E j \in JobRuns : trigger_learning_job_manually(j)
    \/ \E j \in JobRuns : LearningJobResume(j, AllAnalyses)

InitLearn == Init /\ settings = [thr |-> 50, top_k |-> 5]

SpecLearn == InitLearn /\ [][NextLearn]_vars

\* The learning job beside a request that is answered without retries.
NextTuned ==
    \/ CronFire
    \/ start_scheduler
    \/ trigger_learning_job_manually("manual1")
    \/ \E j \in JobRuns : LearningJobResume(j, RetrievalAnalyses)
    \/ Answer("r1", Queries, Sessions, {0})
    \/ Route("r1", RetryIntents, {FALSE})
    \/ Search("r1")
    \/ Generate("r1")
    \/ Validate("r1", MaxDepth)

SpecTuned == Init /\ [][NextTuned]_vars

\* parse_validation_response is called on an assessment text.
ParseValidation ==
    /\ parsed = NotParsed
    /\ parsed' = parse_validation_response(text)
    /\ UNCHANGED <<pipelineVars, learningVars, text, rankVars, queryVars, retryVars, applyVars, jobVars>>

InitParse ==
    /\ InitPipeline
    /\ settings = [thr |-> 50, top_k |-> 5]
    /\ InitLearning
    /\ text \in TextsUpTo(MaxLines)
    /\ parsed = NotParsed
    /\ InitRankIdle
    /\ InitQueryIdle

NextParse == ParseValidation

SpecParse == InitParse /\ [][NextParse]_vars

\* Re-ranking alone: the documents of one search, for one query.
RankQueries ==
    {{}, {"email"}, {"phone"}, {"office"}, {"email", "call"},
     {"email", "number", "where"}}

DocsUpTo(n) ==
    UNION {[1..k -> [id : {0}, content : SUBSET ContentMarks,
                     similarity : Similarities]] : k \in 0..n}

\* similarity_search hands back documents with distinct ids.
Numbered(ds) == [i \in 1..Len(ds) |-> [ds[i] EXCEPT !.id = i]]

ReRankDocs ==
    /\ ranked = NotRanked
    /\ ranked' = ReRank(query_lower, docs, settings)
    /\ UNCHANGED <<pipelineVars, learningVars, parseVars, query_lower, docs,
                   queryVars, retryVars, applyVars, jobVars>>

InitRank ==
    /\ InitPipeline
    /\ settings = [thr |-> 50, top_k |-> 5]
    /\ InitLearning
    /\ text = <<>>
    /\ parsed = NotParsed
    /\ query_lower \in RankQueries
    /\ docs \in {Numbered(ds) : ds \in DocsUpTo(MaxDocs)}
    /\ ranked = NotRanked
    /\ InitQueryIdle

NextRank == ReRankDocs

SpecRank == InitRank /\ [][NextRank]_vars

\* preprocess_query alone, applied to a query and again to what it returned.
MaxWords == 3

QueryTokens ==
    {WS, "Githaf", "githaf", "Consulting", "consultin", "emal", "Emial",
     "phn", "e-mail", "hi", "where"}

QueriesUpTo(n) == UNION {[1..k -> QueryTokens] : k \in 0..n}

Preprocess ==
    /\ Len(processed) < 2
    /\ processed' = Append(processed,
                           preprocess_query(IF processed = <<>> THEN raw_query
                                            ELSE processed[Len(processed)]))
    /\ UNCHANGED <<pipelineVars, learningVars, parseVars, rankVars, raw_query,
                   retryVars, applyVars, jobVars>>

InitQuery ==
    /\ InitPipeline
    /\ settings = [thr |-> 50, top_k |-> 5]
    /\ InitLearning
    /\ text = <<>>
    /\ parsed = NotParsed
    /\ InitRankIdle
    /\ raw_query \in QueriesUpTo(MaxWords)
    /\ processed = <<>>
    /\ retry_text = <<>>
    /\ retry_original = 0
    /\ retry_adjusted = NoSettings
    /\ requested = NoAdjustments
    /\ job_analysis = NoAnalysis

NextQuery == Preprocess

SpecQuery == InitQuery /\ [][NextQuery]_vars

\* retry_with_adjustment alone, up to its writes into the settings: every
\* text of a few phrases, for several thresholds of the failed attempt.
MaxPhrases == 2

AdjustmentPhrases ==
    {"lower threshold", "Lower Threshold", "expand search", "more documents",
     "More Documents", "increase top_k", "rephrase", "REPHRASE",
     "check the sources", "to find better sources"}

AdjustmentsUpTo(n) == UNION {[1..k -> AdjustmentPhrases] : k \in 0..n}

OriginalThresholds == {15, 20, 25, 30, 50, 80}

AdjustParameters ==
    /\ retry_adjusted = NoSettings
    /\ retry_adjusted' = AdjustedParams(retry_text, retry_original)
    /\ UNCHANGED <<pipelineVars, learningVars, parseVars, rankVars, raw_query,
                   processed, retry_text, retry_original, applyVars, jobVars>>

InitAdjust ==
    /\ InitPipeline
    /\ settings = [thr |-> 50, top_k |-> 5]
    /\ InitLearning
    /\ text = <<>>
    /\ parsed = NotParsed
    /\ InitRankIdle
    /\ raw_query = <<>>
    /\ processed = <<>>
    /\ retry_text \in AdjustmentsUpTo(MaxPhrases)
    /\ retry_original \in OriginalThresholds
    /\ retry_adjusted = NoSettings
    /\ requested = NoAdjustments
    /\ job_analysis = NoAnalysis

NextAdjust == AdjustParameters

SpecAdjust == InitAdjust /\ [][NextAdjust]_vars

\* apply_threshold_adjustments alone: one call, on the default store or on a
\* store an earlier call has tuned, with adjustments for up to MaxAdjusted
\* parameters.
MaxAdjusted == 2

TunedThresholds ==
    [DefaultThresholds EXCEPT !["similarity_threshold"] = Present(40),
                              !["top_k"] = Present(300),
                              !["temperature"] = Present(100)]

RequestsUpTo(n) ==
    UNION {[d -> AdjustmentTexts] :
              d \in {x \in SUBSET Params : Cardinality(x) <= n}}

ApplyAdjustments ==
    /\ ~committed
    /\ CURRENT_THRESHOLDS' =
           apply_threshold_adjustments(CURRENT_THRESHOLDS, requested)
    /\ committed' = TRUE
    /\ UNCHANGED <<pipelineVars, jobpc, scheduler, parseVars, rankVars,
                   queryVars, retryVars, applyVars, jobVars>>

InitApply ==
    /\ InitPipeline
    /\ settings = [thr |-> 50, top_k |-> 5]
    /\ CURRENT_THRESHOLDS \in {DefaultThresholds, TunedThresholds}
    /\ committed = FALSE
    /\ jobpc = [j \in JobRuns |-> "idle"]
    /\ scheduler = [running |-> FALSE, jobs |-> <<>>]
    /\ text = <<>>
    /\ parsed = NotParsed
    /\ InitRankIdle
    /\ raw_query = <<>>
    /\ processed = <<>>
    /\ retry_text = <<>>
    /\ retry_original = 0
    /\ retry_adjusted = NoSettings
    /\ requested \in RequestsUpTo(MaxAdjusted)
    /\ job_analysis = NoAnalysis

NextApply == ApplyAdjustments

SpecApply == InitApply /\ [][NextApply]_vars

\* weekly_learning_job on the analysis analyze_feedback_batch returns to it,
\* started by the scheduler or by hand.
InitJob ==
    /\ InitPipeline
    /\ settings = [thr |-> 50, top_k |-> 5]
    /\ InitLearning
    /\ text = <<>>
    /\ parsed = NotParsed
    /\ InitRankIdle
    /\ raw_query = <<>>
    /\ processed = <<>>
    /\ retry_text = <<>>
    /\ retry_original = 0
    /\ retry_adjusted = NoSettings
    /\ requested = <<>>
    /\ job_analysis \in AllAnalyses

NextJob ==
    \/ start_scheduler
    \/ CronFire
    \/ trigger_learning_job_manually("manual1")
    \/ \E j \in {"cron", "manual1"} : LearningJobResume(j, {job_analysis})

SpecJob == InitJob /\ [][NextJob]_vars

---------------------------------------------------------------------------
(* The claims.                                                             *)

\* C1: one request with max_retries = N performs at most N re-runs of
\* retrieval+generation and at most N+1 validation rounds in total, the runs
\* started inside retry_with_adjustment included.
C1_BoundedWork ==
    \A r \in Requests :
        request[r].issued =>
            /\ reruns[r] <= request[r].max_retries
            /\ validations[r] <= request[r].max_retries + 1

\* C2: every get_rag_response call returns, whatever the validator answers.
\* An activation opens at most max_retries activations beneath it, one after
\* the other, so the call returns for every sequence of verdicts exactly when
\* the nesting of activations is bounded: a retry's pipeline run returns to
\* the loop that started it without opening a retry of its own, so that at
\* most two activations of a request are ever open.
C2_BoundedNesting == \A r \in Requests : Len(stack[r]) <= 2

\* C3: a retry never changes the process-wide retrieval configuration: in
\* every state the settings equal the configured values.
C3_SettingsUntouched == settings = configured

\* C4: the threshold and top_k a request passes to similarity_search and the
\* top_k it truncates with all come from the settings in force when the
\* request entered the pipeline.
C4_EntrySnapshot ==
    \A r \in Requests :
        stack[r] # <<>> =>
            LET f == stack[r][1] IN
            /\ f.search # NoSettings =>
                   /\ f.search.thr = Threshold(f.query, f.entry)
                   /\ f.search.top_k = SearchTopK(f.query, f.entry)
            /\ f.trunc # 0 => f.trunc = f.entry.top_k

\* C5: retry_count never exceeds max_retries, in any activation and in any
\* returned result; and when the first two verdicts of a request with
\* max_retries = 2 are invalid with retry recommended, the loop has called
\* retry_with_adjustment exactly twice, reports retry_count = 2 and returns
\* the response of the second retry with the third verdict, whatever it is.
IsRetryVerdict(v) == ~v.is_valid /\ v.retry_recommended

C5_TwoRetries ==
    \A r \in Requests :
        /\ \A i \in 1..Len(stack[r]) :
               stack[r][i].retry_count <= stack[r][i].max_retries
        /\ outcome[r].validation.retry_count <= request[r].max_retries
        /\ ( /\ outcome[r].returned
             /\ request[r].max_retries = 2
             /\ Len(observed[r].verdicts) >= 2
             /\ IsRetryVerdict(observed[r].verdicts[1])
             /\ IsRetryVerdict(observed[r].verdicts[2]) )
           => /\ observed[r].retries = 2
              /\ Len(observed[r].returns) = 2
              /\ Len(observed[r].verdicts) = 3
              /\ outcome[r].response = observed[r].returns[2]
              /\ outcome[r].validation.present
              /\ outcome[r].validation.retry_count = 2
              /\ outcome[r].validation.is_valid = observed[r].last.is_valid
              /\ outcome[r].validation.confidence = observed[r].last.confidence
              /\ outcome[r].validation.issues = observed[r].last.issues

C5_Witness ==
    \E r \in Requests :
        /\ outcome[r].returned
        /\ request[r].max_retries = 2
        /\ observed[r].retries = 2
        /\ Len(observed[r].verdicts) = 3
        /\ IsRetryVerdict(observed[r].last)
        /\ outcome[r].response = Generated(<<2>>)

\* C6: when the outermost loop receives a verdict it performs a retry step if
\* and only if the verdict is invalid, recommends a retry and retry_count is
\* below max_retries; otherwise it returns the current response unchanged
\* with the verdict's is_valid, and a valid first verdict returns with
\* retry_count = 0.
C6_LoopDecision(r) ==
    Len(observed'[r].verdicts) = Len(observed[r].verdicts) + 1 =>
        LET v == observed'[r].last
            f == stack[r][1]
            retried == observed'[r].retries = observed[r].retries + 1
            wanted == /\ ~v.is_valid
                      /\ v.retry_recommended
                      /\ f.retry_count < request[r].max_retries
        IN /\ retried <=> wanted
           /\ retried =>
                  /\ ~outcome'[r].returned
                  /\ Len(stack'[r]) = 2
                  /\ stack'[r][1].retry_count = f.retry_count + 1
           /\ ~wanted =>
                  /\ outcome'[r].returned
                  /\ outcome'[r].response = f.response
                  /\ outcome'[r].sources = f.sources
                  /\ outcome'[r].validation.present
                  /\ outcome'[r].validation.is_valid = v.is_valid
                  /\ outcome'[r].validation.retry_count = f.retry_count
           /\ (v.is_valid /\ Len(observed[r].verdicts) = 0) =>
                  outcome'[r].validation.retry_count = 0

C6_RetryIff == [][\A r \in Requests : C6_LoopDecision(r)]_vars

C6_Witness ==
    \E r \in Requests :
        /\ outcome[r].returned
        /\ request[r].max_retries = 2
        /\ observed[r].retries = 1
        /\ ~observed[r].last.is_valid
        /\ ~observed[r].last.retry_recommended
        /\ ~outcome[r].validation.is_valid

\* C7: after any sequence of apply_threshold_adjustments calls every declared
\* parameter of the store is in its safety band: similarity_threshold in
\* [0.3, 0.8], top_k an integer in [3, 10], temperature in [0.3, 1.0],
\* validation_confidence in [0.5, 0.9].
InBand(p, lo, hi) ==
    /\ CURRENT_THRESHOLDS[p].present
    /\ CURRENT_THRESHOLDS[p].val >= lo
    /\ CURRENT_THRESHOLDS[p].val <= hi

C7_SafetyBands ==
    /\ InBand("similarity_threshold", 30, 80)
    /\ InBand("top_k", 300, 1000)
    /\ CURRENT_THRESHOLDS["top_k"].val % 100 = 0
    /\ InBand("temperature", 30, 100)
    /\ InBand("validation_confidence", 50, 90)

C7_Witness ==
    /\ committed
    /\ CURRENT_THRESHOLDS["similarity_threshold"].val = 30
    /\ CURRENT_THRESHOLDS["top_k"].val = 1000
    /\ CURRENT_THRESHOLDS["temperature"].val = 100
    /\ CURRENT_THRESHOLDS["validation_confidence"].val = 50

\* C8: once apply_threshold_adjustments has committed, a retrieval for a
\* non-factual query passes the committed similarity_threshold and top_k to
\* similarity_search.
C8_RetrievalUsesCommitted ==
    \A r \in Requests :
        stack[r] # <<>> =>
            LET f == stack[r][1] IN
            ( /\ f.search # NoSettings
              /\ f.tuned # NoSettings
              /\ ~is_factual_query(f.query) )
            => f.search = f.tuned

\* C9: at most one execution of weekly_learning_job is in progress at any
\* time.
C9_SingleLearningRun ==
    Cardinality({j \in JobRuns : jobpc[j] = "analyzing"}) <= 1

\* C10: parse_validation_response returns a verdict for every text; a text
\* in which no line starts with one of the six field tags gives the
\* permissive verdict (valid, confidence 1.0, no issues, no retry, no
\* adjustment), and a field whose tag is missing keeps its default.
LineTag(raw) ==
    LET line == Strip(raw) IN
    IF line # <<>> /\ Head(line) \in FieldTags THEN Head(line) ELSE "none"

TagsIn(t) == {LineTag(t[i]) : i \in 1..Len(t)} \ {"none"}

C10_FailOpen ==
    parsed # NotParsed =>
        /\ parsed.is_valid \in BOOLEAN
        /\ parsed.retry_recommended \in BOOLEAN
        /\ parsed.confidence \in Int
        /\ TagsIn(text) = {} =>
               parsed = [is_valid |-> TRUE, confidence |-> 100,
                         issues |-> <<>>, retry_recommended |-> FALSE,
                         suggested_adjustment |-> <<>>]
        /\ "CONFIDENCE:" \notin TagsIn(text) => parsed.confidence = 100
        /\ "RETRY:" \notin TagsIn(text) => ~parsed.retry_recommended
        /\ "ADJUSTMENT:" \notin TagsIn(text) =>
               parsed.suggested_adjustment = <<>>
        /\ TagsIn(text) \cap {"ANSWERS_QUESTION:", "IS_GROUNDED:",
                               "HAS_HALLUCINATION:", "CONFIDENCE:"} = {} =>
               parsed.is_valid /\ parsed.issues = <<>>

C10_Witness ==
    /\ parsed # NotParsed
    /\ Len(text) = 2
    /\ text[1] = <<"confidence:", "0.4">>
    /\ text[2] = <<"This is not the expected format at all!">>
    /\ parsed.is_valid
    /\ parsed.confidence = 100

\* C11: when the assessment call raises, validate_response returns exactly
\* is_valid = true, confidence = 0.5, issues = ["validation_error"],
\* retry_recommended = false; the loop that receives this verdict performs no
\* retry and returns the response it already has, with this verdict as the
\* validation metadata.
C11_Fallback ==
    [is_valid |-> TRUE, confidence |-> 50, issues |-> <<"validation_error">>,
     retry_recommended |-> FALSE, suggested_adjustment |-> <<>>]

C11_Step(r) ==
    ( /\ Len(observed'[r].verdicts) = Len(observed[r].verdicts) + 1
      /\ observed'[r].last = C11_Fallback )
    => /\ outcome'[r].returned
       /\ outcome'[r].response = stack[r][1].response
       /\ outcome'[r].sources = stack[r][1].sources
       /\ reruns'[r] = reruns[r]
       /\ observed'[r].retries = observed[r].retries
       /\ outcome'[r].validation =
              [present |-> TRUE, confidence |-> 50,
               retry_count |-> stack[r][1].retry_count,
               issues |-> <<"validation_error">>, is_valid |-> TRUE]

C11_FallbackNoRetry ==
    [][ /\ \A t \in ValidatorTexts \cup {<<>>} :
              validate_response(t, TRUE) = C11_Fallback
        /\ \A r \in Requests : C11_Step(r) ]_vars

C11_Witness ==
    \E r \in Requests :
        /\ outcome[r].returned
        /\ observed[r].last = C11_Fallback
        /\ observed[r].retries = 1
        /\ outcome[r].response = Generated(<<1>>)
        /\ outcome[r].validation.issues = <<"validation_error">>

\* C12: when similarity_search returns no document, get_rag_response returns
\* the fixed fallback text with sources = [], context_found = false and no
\* error field, and neither the generation backend nor the validator has
\* been called.
C12_NoContext ==
    \A r \in Requests :
        observed[r].found = 0 =>
            /\ stack[r] = <<>>
            /\ outcome[r] =
                   [returned |-> TRUE, response |-> FALLBACK_RESPONSE,
                    sources |-> 0, context_found |-> FALSE,
                    intent |-> "question", conversational |-> FALSE,
                    planned |-> FALSE, error |-> FALSE, validation |-> NoMetadata]
            /\ validations[r] = 0
            /\ observed[r].verdicts = <<>>
            /\ observed[r].on = NoResponse

C12_Witness ==
    \E r \in Requests :
        /\ observed[r].found = 0
        /\ request[r].query = <<"office">>
        /\ outcome[r].returned
        /\ ~outcome[r].context_found

\* C13: get_rag_response never propagates an exception: when a stage raises,
\* the call returns the fixed fallback response with sources = [],
\* context_found = false and an error field; and every call that has ended
\* has returned a result.
C13_NeverRaises ==
    \A r \in Requests :
        /\ observed[r].raised # "none" =>
               /\ stack[r] = <<>>
               /\ outcome[r] =
                      [returned |-> TRUE, response |-> FALLBACK_RESPONSE,
                       sources |-> 0, context_found |-> FALSE,
                       intent |-> "none", conversational |-> FALSE,
                       planned |-> FALSE, error |-> TRUE, validation |-> NoMetadata]
        /\ (request[r].issued /\ stack[r] = <<>>) => outcome[r].returned

C13_Witness ==
    \E r \in Requests :
        /\ observed[r].raised = "generate"
        /\ observed[r].found > 0
        /\ outcome[r].returned
        /\ outcome[r].error

\* C14: parse_validation_response returns is_valid = false if and only if a
\* negative signal was parsed: an ANSWERS_QUESTION or IS_GROUNDED field that
\* says no, a HAS_HALLUCINATION field that says yes, or a CONFIDENCE value
\* below 0.7; a field whose value is neither a yes nor a no does not demote.
C14_Says(line, word) == \E i \in 1..Len(line) : Lower(line[i]) = word

C14_Negative(raw) ==
    LET line == Strip(raw) IN
    \/ LineTag(raw) \in {"ANSWERS_QUESTION:", "IS_GROUNDED:"}
          /\ C14_Says(line, "no")
    \/ LineTag(raw) = "HAS_HALLUCINATION:" /\ C14_Says(line, "yes")
    \/ LineTag(raw) = "CONFIDENCE:"
          /\ FirstNumber(line).kind = "num"
          /\ FirstNumber(line).val < 70

C14_DemotedIffNegative ==
    parsed # NotParsed =>
        (~parsed.is_valid <=> \E i \in 1..Len(text) : C14_Negative(text[i]))

\* C15: for intent UNCLEAR the clarification category is the first group, in
\* the order email, pricing, contact, services, hours, that has a keyword in
\* the query, and "default" when none has.
C15_FirstMatch(kw) ==
    IF "email" \in kw THEN "email"
    ELSE IF kw \cap {"pricing", "price", "cost", "payment", "fee"} # {}
    THEN "pricing"
    ELSE IF kw \cap {"contact", "phone", "address", "location"} # {}
    THEN "contact"
    ELSE IF kw \cap {"services", "service"} # {} THEN "services"
    ELSE IF kw \cap {"hours", "schedule", "availability"} # {} THEN "hours"
    ELSE "default"

C15_ClarificationPriority ==
    \A r \in Requests :
        (outcome[r].returned /\ outcome[r].intent = "unclear") =>
            outcome[r].response =
                Template("CLARIFICATION_RESPONSES",
                         C15_FirstMatch(
                             KeywordsIn(preprocess_query(request[r].query))))

\* C16: in the context-aware CHIT_CHAT branch a failure of the history
\* fetch, of the history formatting or of the generation call makes the
\* call return a generic CHIT_CHAT template with conversational = true.
C16_ContextAware(r) ==
    LET q == preprocess_query(request[r].query) IN
    /\ observed[r].intent = "chit_chat"
    /\ request[r].session
    /\ IsAffirmation(q)
    /\ KeywordsIn(q) = {}

C16_Failed(r) ==
    \/ observed[r].chat.history = "raises"
    \/ /\ observed[r].chat.history = "some"
       /\ \/ observed[r].chat.format = "raises"
          \/ observed[r].chat.llm = "raises"

C16_ChatFallback ==
    \A r \in Requests :
        (C16_ContextAware(r) /\ C16_Failed(r)) =>
            /\ outcome[r].returned
            /\ outcome[r].conversational
            /\ ~outcome[r].error
            /\ outcome[r].response = Template("CHIT_CHAT_RESPONSES", "default")

C18_Claimed(kw, configured_thr) ==
    IF kw \cap {"email", "location", "where", "address", "office"} # {}
    THEN 20
    ELSE IF kw \cap factual_keywords # {} THEN 25
    ELSE configured_thr

C18_ThresholdByFlavour ==
    \A r \in Requests :
        \A i \in 1..Len(stack[r]) :
            LET f == stack[r][i] IN
            f.search # NoSettings =>
                f.search.thr =
                    C18_Claimed(KeywordsIn(preprocess_query(f.raw)),
                                f.entry.thr)

C20_Capped(similarity, applies, pct) ==
    IF applies THEN Min(One, (similarity * pct) \div 100) ELSE similarity

C20_Claimed(q, doc) ==
    C20_Capped(
        C20_Capped(
            C20_Capped(doc.similarity,
                       "email" \in q /\ "@" \in doc.content, 150),
            q \cap {"phone", "call", "number"} # {} /\ "digit" \in doc.content,
            130),
        q \cap {"location", "where", "address", "office"} # {}
            /\ "place" \in doc.content,
        160)

C20_BoostWithinUnit ==
    ranked # NotRanked =>
        \A i \in 1..Len(ranked) :
            LET original == docs[ranked[i].id]
            IN  /\ ranked[i].similarity >= 0
                /\ ranked[i].similarity <= One
                /\ ranked[i].similarity >= original.similarity
                /\ is_factual_query(query_lower) =>
                       ranked[i].similarity = C20_Claimed(query_lower, original)

\* A document of similarity 0.7 that takes all three boosts and ends at 1.0.
C20_Witness ==
    /\ ranked # NotRanked
    /\ query_lower = {"email", "number", "where"}
    /\ \E i \in 1..Len(ranked) :
           /\ docs[ranked[i].id].similarity = 70000
           /\ docs[ranked[i].id].content = ContentMarks
           /\ ranked[i].similarity = One

\* C21: re-ranking never places snippet A below snippet B when A's original
\* similarity is strictly higher than B's and A received a boost that B did
\* not receive, whatever the query's flags and the snippets' contents.
C21_Boosts(q, doc) ==
    {b \in {"email", "phone", "location"} :
        \/ b = "email" /\ needs_email(q) /\ "@" \in doc.content
        \/ b = "phone" /\ needs_phone(q) /\ "digit" \in doc.content
        \/ b = "location" /\ needs_location(q) /\ "place" \in doc.content}

C21_BoostedStaysAbove ==
    (ranked # NotRanked /\ is_factual_query(query_lower)) =>
        \A i, j \in 1..Len(ranked) :
            LET A == docs[ranked[i].id]
                B == docs[ranked[j].id]
            IN  (/\ A.similarity > B.similarity
                 /\ C21_Boosts(query_lower, A) \ C21_Boosts(query_lower, B) # {})
                => i < j

\* The same statement for the pairs where B received no boost that A did not.
C21_SubsetStaysAbove ==
    (ranked # NotRanked /\ is_factual_query(query_lower)) =>
        \A i, j \in 1..Len(ranked) :
            LET A == docs[ranked[i].id]
                B == docs[ranked[j].id]
            IN  (/\ A.similarity > B.similarity
                 /\ \A k \in 1..(Len(docs) - 1) :
                        docs[k].similarity >= docs[k + 1].similarity
                 /\ C21_Boosts(query_lower, A) \ C21_Boosts(query_lower, B) # {}
                 /\ C21_Boosts(query_lower, B) \subseteq C21_Boosts(query_lower, A))
                => i < j

\* C22: preprocess_query is idempotent: applied to its own result it returns
\* that result, also where a correction produces "consulting" after the
\* company name and where several misspellings are mixed.
C22_Idempotent == Len(processed) = 2 => processed[2] = processed[1]

\* "Githaf consultin": the name is completed and the misspelling corrected.
C22_Witness ==
    /\ raw_query = <<"Githaf", "consultin">>
    /\ processed =
           << <<"Githaf", "Consulting", "consulting">>,
              <<"Githaf", "Consulting", "consulting">> >>

\* C23: preprocess_query returns unchanged every input shorter than the six
\* characters of "Githaf", the empty and the whitespace-only input included.
C23_Chars(w) ==
    CASE w = WS -> 1
      [] w = "hi" -> 2
      [] w = "phn" -> 3
      [] w = "emal" -> 4
      [] w \in {"Emial", "where"} -> 5
      [] w \in {"Githaf", "githaf", "e-mail"} -> 6
      [] w = "consultin" -> 9
      [] OTHER -> 10

RECURSIVE C23_Length(_)
C23_Length(q) ==
    IF q = <<>> THEN 0
    ELSE C23_Chars(Head(q)) + C23_Length(Tail(q))
         + (IF Len(q) > 1 /\ Head(q) # WS /\ q[2] # WS THEN 1 ELSE 0)

C23_ShortUnchanged ==
    (processed # <<>> /\ C23_Length(raw_query) < 6) =>
        processed[1] = raw_query

\* The part about empty and whitespace-only inputs.
C23_BlankUnchanged ==
    (processed # <<>> /\ \A i \in 1..Len(raw_query) : raw_query[i] = WS) =>
        processed[1] = raw_query

\* C24: the normalized query is used only for retrieval: every prompt sent to
\* the generation backend on behalf of a request, and every validator call,
\* carries the query text as the user wrote it.
C24_OriginalShown ==
    \A p \in observed["r1"].shown :
        p.to \in {"classifier", "chat", "generator", "validator"}
            => p.query = request["r1"].query

\* C24 as amended: the prompts that produce the response (the RAG prompt and
\* the context-aware chit-chat prompt) and every validator call carry the
\* query text as the user wrote it.
C24_OriginalAnswered ==
    \A p \in observed["r1"].shown :
        p.to \in {"chat", "generator", "validator"}
            => p.query = request["r1"].query

\* A misspelt question answered after a retry, and a chit-chat "OK" answered
\* by the model: both were shown the user's text.
C24_Witness ==
    /\ outcome["r1"].returned
    /\ request["r1"].query = <<"What", "is", "your", "emial">>
    /\ preprocess_query(request["r1"].query) # request["r1"].query
    /\ observed["r1"].retries = 1
    /\ [to |-> "generator", query |-> request["r1"].query]
           \in observed["r1"].shown
    /\ [to |-> "validator", query |-> request["r1"].query]
           \in observed["r1"].shown

\* C25: retry_with_adjustment derives the retry parameters from the
\* adjustment text, whatever the case of its letters: a mention of "lower
\* threshold" or "expand search" gives the threshold max(0.15, original -
\* 0.10); otherwise a mention of "more documents" or "increase top_k" gives
\* top_k = 10; otherwise a mention of "rephrase" gives the threshold
\* max(0.20, original - 0.05).
C25_Says(phrases) ==
    \E i \in 1..Len(retry_text) :
        retry_text[i] \in phrases

C25_Lower == C25_Says({"lower threshold", "Lower Threshold", "expand search"})
C25_More == C25_Says({"more documents", "More Documents", "increase top_k"})
C25_Rephrase == C25_Says({"rephrase", "REPHRASE"})

C26_Retrying ==
    /\ Len(stack["r1"]) = 2
    /\ stack["r1"][1].pc = "retrying"
    /\ stack["r1"][2].search # NoSettings

C26_Derived ==
    AdjustedParams(observed["r1"].last.suggested_adjustment,
                   stack["r1"][1].threshold)

C26_RetryUsesAdjusted ==
    C26_Retrying =>
        /\ stack["r1"][2].search = C26_Derived
        /\ Mentions(observed["r1"].last.suggested_adjustment,
                    "lower threshold")
              => stack["r1"][2].search.thr <= stack["r1"][1].search.thr

\* The same for the queries without a factual keyword.
C26_PlainRetryUsesAdjusted ==
    (C26_Retrying /\ ~is_factual_query(stack["r1"][2].query)) =>
        stack["r1"][2].search = C26_Derived

\* C27: when the adjustment text matches no known directive, the retry runs
\* retrieval with the same threshold and the same top_k as before the retry,
\* whatever the configured top_k is, and still counts as a retry.
C27_NoDirective ==
    LET a == observed["r1"].last.suggested_adjustment
    IN  \A phrase \in {"lower threshold", "expand search", "more documents",
                       "increase top_k", "rephrase"} : ~Mentions(a, phrase)

C27_UnmatchedKeepsParameters ==
    (C26_Retrying /\ C27_NoDirective) =>
        /\ stack["r1"][2].search = stack["r1"][1].search
        /\ stack["r1"][1].retry_count >= 1

\* The same with the configured top_k at the 5 the retry writes.
C27_UnmatchedKeepsAtFive ==
    (C26_Retrying /\ C27_NoDirective /\ configured.top_k = RetryTopK) =>
        /\ stack["r1"][2].search = stack["r1"][1].search
        /\ stack["r1"][1].retry_count >= 1

\* C28: in apply_threshold_adjustments an adjustment whose text has no
\* "<current> -> <suggested>" pattern, or whose suggested part is not a
\* number, is skipped: its parameter keeps the value it had, while the
\* parseable adjustments of the same call are clamped and committed.
C28_Suggested(adjustment_text) ==
    CASE adjustment_text
             = <<"0.5", Arrow, WS, "0.4", WS, "(", "lower threshold", ")">>
             -> [skipped |-> FALSE, val |-> 40]
      [] adjustment_text = <<"5", Arrow, "-1">>
             -> [skipped |-> FALSE, val |-> -100]
      [] adjustment_text = <<"5", Arrow, "15", "(", "more context", ")">>
             -> [skipped |-> FALSE, val |-> 1500]
      [] adjustment_text = <<"5", Arrow, "4.7">>
             -> [skipped |-> FALSE, val |-> 470]
      [] OTHER -> [skipped |-> TRUE, val |-> 0]

C28_Clamp(lo, hi, v) == IF v < lo THEN lo ELSE IF v > hi THEN hi ELSE v

C28_Banded(param, v) ==
    CASE param = "similarity_threshold" -> C28_Clamp(30, 80, v)
      [] param = "top_k" -> (C28_Clamp(300, 1000, v) \div 100) * 100
      [] param = "temperature" -> C28_Clamp(30, 100, v)
      [] param = "validation_confidence" -> C28_Clamp(50, 90, v)
      [] OTHER -> v

C28_Call ==
    (~committed /\ committed') =>
        \A param \in Params :
            IF param \in DOMAIN requested
               /\ ~C28_Suggested(requested[param]).skipped
            THEN CURRENT_THRESHOLDS'[param] =
                     Present(C28_Banded(param,
                                        C28_Suggested(requested[param]).val))
            ELSE CURRENT_THRESHOLDS'[param] = CURRENT_THRESHOLDS[param]

C28_SkipsUnparseable == [][C28_Call]_vars

\* On the tuned store: the threshold's text has no number and keeps 0.4, the
\* top_k of the same call is clamped from 15 to 10 and committed.
C28_Witness ==
    /\ committed
    /\ requested =
           [param \in {"similarity_threshold", "top_k"} |->
               IF param = "top_k"
               THEN <<"5", Arrow, "15", "(", "more context", ")">>
               ELSE <<"0.5", Arrow, "N/A">>]
    /\ CURRENT_THRESHOLDS["similarity_threshold"] = Present(40)
    /\ CURRENT_THRESHOLDS["top_k"] = Present(1000)

\* C29: every verdict produced by parse_validation_response or
\* validate_response has a confidence within [0, 1], whatever CONFIDENCE line
\* the backend emits, a percentage such as "CONFIDENCE: 85" included.
C29_ConfidenceWithinUnit ==
    parsed # NotParsed =>
        /\ \A raised \in BOOLEAN :
               /\ validate_response(text, raised).confidence >= 0
               /\ validate_response(text, raised).confidence <= 100
        /\ parsed.confidence >= 0
        /\ parsed.confidence <= 100

\* The same for the texts whose CONFIDENCE lines carry no number above 1.
C29_FractionWithinUnit ==
    (parsed # NotParsed
     /\ \A i \in 1..Len(text) :
            \A j \in 1..Len(text[i]) : text[i][j] # "85") =>
        /\ parsed.confidence >= 0
        /\ parsed.confidence <= 100

\* C30: the choice between the conversational short-circuit and the retrieval
\* path depends only on the classified intent: two requests classified with
\* the same intent take the same branch, whatever the configuration, the
\* session, the history and the earlier requests and retries.
C30_Classified(r) == observed[r].intent # "none"

C30_ShortCircuited(r) == observed[r].chat # NoChat

C30_SameIntentSameBranch ==
    \A r1, r2 \in Requests :
        (/\ C30_Classified(r1)
         /\ C30_Classified(r2)
         /\ observed[r1].intent = observed[r2].intent)
        => (C30_ShortCircuited(r1) <=> C30_ShortCircuited(r2))

\* Two questions, with and without a session, the second classified while
\* the retry of the first has the settings overridden: both went on to
\* retrieval.
C30_Witness ==
    /\ observed["r1"].intent = "question"
    /\ observed["r2"].intent = "question"
    /\ request["r1"].session # request["r2"].session
    /\ Len(stack["r1"]) = 2
    /\ settings # configured
    /\ Len(stack["r2"]) = 1
    /\ stack["r2"][1].pc = "search"
    /\ stack["r2"][1].search.thr = settings.thr
    /\ ~C30_ShortCircuited("r1")
    /\ ~C30_ShortCircuited("r2")

\* Two chit-chat requests, with and without a session: both short-circuited.
C30_ChatWitness ==
    /\ observed["r1"].intent = "chit_chat"
    /\ observed["r2"].intent = "chit_chat"
    /\ request["r1"].session # request["r2"].session
    /\ outcome["r1"].conversational
    /\ outcome["r2"].conversational

\* The services request r has called so far.
CalledBy(r) == {c.to : c \in observed[r].shown}

\* C31: a request that took the planning branch called neither the embedding
\* service nor similarity_search, validated the planned response exactly once,
\* made no retry whatever that verdict was, and returned planned = true with
\* retry_count = 0 and no sources.
C31_PlanningBypassesRetrieval ==
    \A r \in Requests :
        (outcome[r].returned /\ "planner" \in CalledBy(r)
                             /\ Len(observed[r].returns) = 0
                             /\ ~outcome[r].error)
        => /\ outcome[r].planned
           /\ "embedder" \notin CalledBy(r)
           /\ observed[r].found = -1
           /\ "generator" \notin CalledBy(r)
           /\ validations[r] = 1
           /\ reruns[r] = 0
           /\ observed[r].retries = 0
           /\ outcome[r].validation.present
           /\ outcome[r].validation.retry_count = 0
           /\ outcome[r].sources = 0

\* A planned response whose only verdict was invalid with a retry recommended,
\* returned by a request that had retries to spend.
C31_Witness ==
    /\ outcome["r1"].returned
    /\ outcome["r1"].planned
    /\ request["r1"].max_retries > 0
    /\ ~outcome["r1"].validation.is_valid
    /\ \E v \in Verdicts :
          /\ v.retry_recommended
          /\ ~v.is_valid
          /\ v.issues = outcome["r1"].validation.issues
          /\ v.confidence = outcome["r1"].validation.confidence
          /\ \A w \in Verdicts :
                (w.issues = v.issues /\ w.confidence = v.confidence)
                => w.retry_recommended
    /\ validations["r1"] = 1

\* C32: once every concurrent request that performed a retry has returned, the
\* process-wide threshold and top_k are the values they had before the
\* requests started.
C32_RestoredAfterAllReturned ==
    (\A r \in Requests :
        /\ request[r].issued
        /\ stack[r] = <<>>
        /\ outcome[r].returned
        /\ observed[r].retries >= 1)
    => settings = configured

\* C33: with a single request running, every retry_with_adjustment leaves the
\* settings as they were before its call: whenever an activation runs (is on
\* top of the call stack) the settings are those it started with, whatever
\* the runs of its retries returned, and once the request has returned they
\* are the configured ones.
C33_SettingsAsBeforeTheCall ==
    /\ stack["r2"] = <<>>
    /\ IF stack["r1"] = <<>>
       THEN settings = configured
       ELSE settings = Top("r1").entry

\* A retry that ran a retry of its own has returned to the loop of the
\* outermost run, which had overridden top_k.
C33_Witness ==
    /\ Len(stack["r1"]) = 1
    /\ reruns["r1"] >= 2
    /\ Top("r1").pc = "validate"
    /\ Top("r1").retry_count = 1
    /\ settings = configured
    /\ configured.top_k # RetryTopK

\* C34: every result with context_found = true and without the planned flag
\* has a non-empty sources list and a response generated from retrieved
\* context, not the fixed fallback text, also after retries whose run found
\* no context or failed.
C34_ContextFoundHasContext ==
    \A r \in Requests :
        (outcome[r].returned /\ outcome[r].context_found
                             /\ ~outcome[r].planned)
        => /\ outcome[r].sources > 0
           /\ outcome[r].response.kind = "generated"

\* C35: the validation metadata of a result (confidence, issues, is_valid) is
\* the verdict validate_response computed on exactly the response and the
\* sources returned in the same result, after any number of retries.
C35_MetadataOfReturned ==
    \A r \in Requests :
        (outcome[r].returned /\ outcome[r].validation.present)
        => /\ outcome[r].validation.confidence = observed[r].last.confidence
           /\ outcome[r].validation.issues = observed[r].last.issues
           /\ outcome[r].validation.is_valid = observed[r].last.is_valid
           /\ observed[r].on = outcome[r].response
           /\ observed[r].on_sources = outcome[r].sources

\* After two retries the answer generated by the second retry's run is
\* returned with the third verdict, which differs from the first two.
C35_Witness ==
    /\ outcome["r1"].returned
    /\ outcome["r1"].validation.retry_count = 2
    /\ outcome["r1"].response = Generated(<<2>>)
    /\ outcome["r1"].sources > 0
    /\ Len(observed["r1"].verdicts) = 3
    /\ outcome["r1"].validation.is_valid
    /\ outcome["r1"].validation.issues = <<>>
    /\ observed["r1"].returns[1] # outcome["r1"].response

\* C36: from the conversational path the generation backend is called only
\* when the intent is CHIT_CHAT, no specific phrase pattern matches, the query
\* is an affirmation token, a session id is present and the fetched history
\* is non-empty; in every other conversational case the response is a fixed
\* template and the generation backend is not called.
C36_ContextAware(r) ==
    LET q == preprocess_query(request[r].query) IN
    /\ observed[r].intent = "chit_chat"
    /\ KeywordsIn(q) \cap {"how are you", "how r u", "your name",
                           "who are you", "what are you", "bot", "robot",
                           "ai"} = {}
    /\ IsAffirmation(q)
    /\ request[r].session
    /\ observed[r].chat.history = "some"

C36_TemplateSets ==
    {"GREETING_RESPONSES", "FAREWELL_RESPONSES", "GRATITUDE_RESPONSES",
     "HELP_RESPONSE", "OUT_OF_SCOPE_RESPONSE", "CLARIFICATION_RESPONSES",
     "CHIT_CHAT_RESPONSES", "UNCLEAR_QUERY_RESPONSE"}

C36_Conversational(r) ==
    /\ outcome[r].returned
    /\ observed[r].intent \in Intents \ {"question"}

C36_ChatModelOnlyInContext ==
    \A r \in Requests :
        C36_Conversational(r) =>
            /\ "chat" \in CalledBy(r) => C36_ContextAware(r)
            /\ ~C36_ContextAware(r) =>
                   /\ outcome[r].response.kind \in C36_TemplateSets
                   /\ "chat" \notin CalledBy(r)

\* The part about the calls alone.
C36_CalledOnlyInContext ==
    \A r \in Requests :
        (C36_Conversational(r) /\ "chat" \in CalledBy(r))
        => C36_ContextAware(r)

\* C37: weekly_learning_job leaves CURRENT_THRESHOLDS unchanged unless the
\* analysis covered at least one response, its confidence is at least 0.6 and
\* it contains at least one threshold adjustment; a failed or empty analysis
\* never changes a threshold.
C37_AppliesOnlyConfident ==
    [][ CURRENT_THRESHOLDS' # CURRENT_THRESHOLDS =>
            /\ job_analysis.total_analyzed >= 1
            /\ job_analysis.confidence >= 60
            /\ DOMAIN job_analysis.threshold_adjustments # {} ]_vars

\* The job has applied the adjustment of an analysis at confidence 0.6.
C37_Witness ==
    /\ job_analysis.total_analyzed = 1
    /\ job_analysis.confidence = 60
    /\ DOMAIN job_analysis.threshold_adjustments = {"similarity_threshold"}
    /\ CURRENT_THRESHOLDS["similarity_threshold"].val = 40
    /\ jobpc = [j \in JobRuns |-> "idle"]

\* C38: for every input text the verdict parse_validation_response returns
\* has is_valid exactly when its issues list is empty, and no more issues
\* than the text has lines: each demotion appends one issue and nothing sets
\* is_valid back to true.
C38_ValidIffNoIssues ==
    parsed # NotParsed =>
        /\ parsed.is_valid <=> (parsed.issues = <<>>)
        /\ Len(parsed.issues) <= Len(text)

\* A text whose first line demotes and whose second line says yes: the
\* verdict stays invalid with the one issue.
C38_Witness ==
    /\ text = << <<"IS_GROUNDED:", "NO">>, <<"ANSWERS_QUESTION:", "yes">> >>
    /\ parsed # NotParsed
    /\ ~parsed.is_valid
    /\ parsed.issues = <<"not grounded in sources">>

\* C39: after any sequence of apply_threshold_adjustments calls the store
\* holds exactly the four declared parameters: an adjustment that names
\* another parameter adds no key to it.
C39_OnlyDeclaredKeys ==
    {p \in DOMAIN CURRENT_THRESHOLDS : CURRENT_THRESHOLDS[p].present}
        = DeclaredParams

\* C40: after any sequence of start_scheduler and stop_scheduler calls the
\* scheduler holds at most one job with id "weekly_learning"; start_scheduler
\* on a running scheduler and stop_scheduler on a stopped one change nothing.
C40_WeeklyJobs(s) == Len(SelectSeq(s.jobs, LAMBDA j : j = WEEKLY_JOB))

C40_NoOp ==
    (scheduler.running <=> scheduler'.running) => scheduler' = scheduler

C40_AtMostOneWeeklyJob ==
    /\ [](C40_WeeklyJobs(scheduler) <= 1)
    /\ [][C40_NoOp]_vars

\* The scheduler was started and stopped: it still holds the job that the
\* next start adds again.
C40_Witness ==
    /\ ~scheduler.running
    /\ scheduler.jobs = <<WEEKLY_JOB>>

===========================================================================
